---- MODULE Spec2Model ----
(***************************************************************************)
(* A model of the hybrid audio matcher of                                  *)
(*   src/archived/audio-matching-test/scripts/match-audio-hybrid.py        *)
(* (run_dtw_matching, run_stt_matching, calculate_smart_buffer,            *)
(* combine_results, main) and of the sliding-window scan it shares with    *)
(*   src/audio-matching-test/scripts/match-audio-dtw.py.                   *)
(*                                                                         *)
(* Python floats are modelled as exact rationals <<n, d>> in lowest terms  *)
(* with d >= 0; <<1, 0>> is float('inf') and <<-1, 0>> is -inf.            *)
(***************************************************************************)
EXTENDS Integers, Sequences, FiniteSets, TLC

VARIABLES
  pc,             \* position of main(): "start", "dtw_done", "stt_done", "combined",
                  \* "emitted", "aborted"; of run_dtw_matching: "scan", "aligned";
                  \* of a parallel reduction: "reduce"
  full_duration,  \* main's full_duration (seconds)
  dtw_result,     \* what run_dtw_matching returned, or None
  stt_result,     \* what run_stt_matching returned, or None
  stt_how,        \* how the transcript matching ended: "not_run", "no_segments",
                  \* "ok", or the way run_stt_matching failed
  combined,       \* what combine_results returned, or None
  output,         \* the output record main printed as JSON, or None
  crop_file,      \* the content of crop_instructions.json, or None
  features_clip,  \* run_dtw_matching: the clip's feature frames
  features_full,  \* the full track's feature frames
  clip_samples,   \* len(y_clip)
  i,              \* the offset the loop of line 68 evaluates next
  best,           \* best_cost, best_position and best_path of lines 64-66
  positions,      \* the offsets evaluated so far, in order
  pending,        \* a parallel reduction: the offsets not yet reduced
  reported        \* run-test-suite.py: what run_test_case returned, or None

mvars == <<full_duration, stt_result, stt_how, combined, output, crop_file>>
avars == <<features_clip, features_full, clip_samples, i, best, positions, pending>>
svars == <<reported>>
vars == <<pc, dtw_result, mvars, avars, svars>>

(***************************************************************************)
(* Float arithmetic, as exact rationals.                                   *)
(***************************************************************************)
Abs(x) == IF x < 0 THEN -x ELSE x

RECURSIVE GCD(_, _)
GCD(a, b) == IF b = 0 THEN a ELSE GCD(b, a % b)

Rat(n, d) ==
  LET g == GCD(Abs(n), Abs(d))
      s == IF d < 0 THEN -1 ELSE 1
  IN  <<(s * n) \div g, (s * d) \div g>>

RAdd(a, b) == Rat(a[1] * b[2] + b[1] * a[2], a[2] * b[2])
RSub(a, b) == Rat(a[1] * b[2] - b[1] * a[2], a[2] * b[2])
RMul(a, b) == Rat(a[1] * b[1], a[2] * b[2])
RDiv(a, b) == Rat(a[1] * b[2], a[2] * b[1])
RLt(a, b) == a[1] * b[2] < b[1] * a[2]
RLe(a, b) == a[1] * b[2] <= b[1] * a[2]
RAbs(a) == <<Abs(a[1]), a[2]>>
\* Python's min(a, b) and max(a, b): the first argument unless the second is
\* strictly smaller (larger).
RMin(a, b) == IF RLt(b, a) THEN b ELSE a
RMax(a, b) == IF RLt(a, b) THEN b ELSE a

Zero == Rat(0, 1)
One == Rat(1, 1)
Inf == <<1, 0>>

\* Python's None
None == [none |-> TRUE]

(***************************************************************************)
(* run_dtw_matching, from the winning start time on (lines 85-99).         *)
(***************************************************************************)
\* confidence = max(0, min(1, 1 - (best_cost / 5.0)))
CostScale == Rat(5, 1)

\* line 90 without the "1 -"
DtwConfidenceRising(best_cost) ==
  RMax(Zero, RMin(One, RDiv(best_cost, CostScale)))

DtwConfidence(best_cost) ==
  RMax(Zero, RMin(One, RSub(One, RDiv(best_cost, CostScale))))

\* line 87 without start_time
DtwResultEndIsDuration(start_time, clip_duration, best_cost) ==
  [start |-> start_time,
   end |-> clip_duration,
   confidence |-> DtwConfidence(best_cost),
   dtw_cost |-> best_cost]

\* lines 87-99: the dict run_dtw_matching returns
DtwResult(start_time, clip_duration, best_cost) ==
  [start |-> start_time,
   end |-> RAdd(start_time, clip_duration),
   confidence |-> DtwConfidence(best_cost),
   dtw_cost |-> best_cost]

(***************************************************************************)
(* run_dtw_matching, lines 58-83: the sliding-window scan.  A feature      *)
(* frame is one number and the distance of two frames is |x - y|.          *)
(***************************************************************************)
SampleRate == 22050
HopLength == 512

\* librosa.frames_to_time(frame, sr=sr, hop_length=hop_length)
FramesToTime(frame) == Rat(frame * HopLength, SampleRate)

\* librosa.get_duration(y=y_clip, sr=sr)
GetDuration(samples) == Rat(samples, SampleRate)

\* line 61 rounding up
WindowSizeCeil(clip_frames) == (3 * clip_frames + 1) \div 2

\* line 61: int(clip_frames * 1.5)
WindowSize(clip_frames) == (3 * clip_frames) \div 2

\* line 62: max(1, clip_frames // 4)
HopSize(clip_frames) ==
  IF clip_frames \div 4 > 1 THEN clip_frames \div 4 ELSE 1

\* line 69: features_full[:, i:i+window_size]
Window(full, o, window_size) == SubSeq(full, o + 1, o + window_size)

Dist(x, y) == Abs(x - y)

\* the steps of librosa.sequence.dtw, in the order it tries them
StepSizes == <<(<<1, 1>>), (<<0, 1>>), (<<1, 0>>)>>

\* the steps without the diagonal one
PredsNoDiagonal(r, c) ==
  SelectSeq([k \in 1..2 |-> <<r - StepSizes[k + 1][1], c - StepSizes[k + 1][2]>>],
            LAMBDA q : q[1] >= 0 /\ q[2] >= 0)

\* the cells a step leads to (r, c) from, in that order
Preds(r, c) ==
  SelectSeq([k \in 1..3 |-> <<r - StepSizes[k][1], c - StepSizes[k][2]>>],
            LAMBDA q : q[1] >= 0 /\ q[2] >= 0)

\* the accumulated cost matrix and the steps taken, row by row: cell (r, c)
\* is entry r * M + c + 1; of the cheapest predecessors the first in the
\* order of StepSizes is kept
AccumulateCell(X, Y, r, c, acc) ==
  LET M == Len(Y)
      ps == Preds(r, c)
      at(q) == acc.D[q[1] * M + q[2] + 1]
      j == CHOOSE j \in 1..Len(ps) :
             /\ \A l \in 1..Len(ps) : at(ps[j]) <= at(ps[l])
             /\ \A l \in 1..(j - 1) : at(ps[l]) > at(ps[j])
  IN  IF r = 0 /\ c = 0
      THEN [D |-> <<Dist(X[1], Y[1])>>, steps |-> <<(<<0, 0>>)>>]
      ELSE [D |-> Append(acc.D, Dist(X[r + 1], Y[c + 1]) + at(ps[j])),
            steps |-> Append(acc.steps, ps[j])]

\* row r from column c on; a cell is complete before the next one is begun
\* (the test of the length always succeeds)
RECURSIVE AccumulateRow(_, _, _, _, _)
AccumulateRow(X, Y, r, c, acc) ==
  LET cell == AccumulateCell(X, Y, r, c, acc)
  IN  IF c = Len(Y) THEN acc
      ELSE IF Len(cell.D) = r * Len(Y) + c + 1
      THEN AccumulateRow(X, Y, r, c + 1, cell)
      ELSE acc

\* the rows from r on
RECURSIVE AccumulateCost(_, _, _, _)
AccumulateCost(X, Y, r, acc) ==
  IF r = Len(X) THEN acc
  ELSE AccumulateCost(X, Y, r + 1, AccumulateRow(X, Y, r, 0, acc))

\* the path from cell q back to (0, 0)
RECURSIVE Backtrack(_, _, _)
Backtrack(steps, M, q) ==
  IF q = <<0, 0>> THEN <<q>>
  ELSE <<q>> \o Backtrack(steps, M, steps[q[1] * M + q[2] + 1])

\* line 70: librosa.sequence.dtw(X, Y, metric='euclidean', backtrack=True).
\* D is the accumulated cost matrix; wp is the warping path, which librosa
\* returns from the last cell (N-1, M-1) back to (0, 0).
Dtw(X, Y) ==
  LET acc == AccumulateCost(X, Y, 0, [D |-> <<>>, steps |-> <<>>])
  IN  [D |-> acc.D,
       wp |-> Backtrack(acc.steps, Len(Y), <<Len(X) - 1, Len(Y) - 1>>)]

\* D[-1, -1]
TotalCost(a) == a.D[Len(a.D)]

\* line 71: cost = D[-1, -1] / len(wp)
WindowCost(clip, full, o) ==
  LET a == Dtw(clip, Window(full, o, WindowSize(Len(clip))))
  IN  [cost |-> Rat(TotalCost(a), Len(a.wp)),
       wp |-> a.wp]

\* best_path = None (a warping path has at least one point)
NoPath == <<>>

\* lines 64-66
NoBest == [cost |-> Inf, position |-> 0, path |-> NoPath]

\* lines 73-76 with <= for <
ScanUpdateLast(b, o, w) ==
  IF RLe(w.cost, b.cost)
  THEN [cost |-> w.cost, position |-> o, path |-> w.wp]
  ELSE b

\* lines 73-76: a window of strictly lower cost becomes the best
ScanUpdate(b, o, w) ==
  IF RLt(w.cost, b.cost)
  THEN [cost |-> w.cost, position |-> o, path |-> w.wp]
  ELSE b

\* line 68 without the "+ 1"
InRangeExclusive(clip, full, o) == o < Len(full) - WindowSize(Len(clip))

\* line 68: range(0, full_frames - window_size + 1, hop_size) from o on
InRange(clip, full, o) == o < Len(full) - WindowSize(Len(clip)) + 1

\* lines 68-76: the loop from offset o on
RECURSIVE Scan(_, _, _, _)
Scan(clip, full, o, b) ==
  IF InRange(clip, full, o)
  THEN Scan(clip, full, o + HopSize(Len(clip)),
            ScanUpdate(b, o, WindowCost(clip, full, o)))
  ELSE b

\* lines 78-83
ActualStartFrame(b) ==
  IF b.path # NoPath THEN b.position + b.path[1][2] ELSE b.position

\* lines 78-99
AlignerResult(b, samples) ==
  DtwResult(FramesToTime(ActualStartFrame(b)), GetDuration(samples), b.cost)

(***************************************************************************)
(* calculate_smart_buffer                                                  *)
(***************************************************************************)
\* line 180 with the value of line 179
BufferEndAsStart == Rat(2, 1)

DefaultBufferStart == Rat(2, 1)
DefaultBufferEnd == Rat(5, 2)

\* line 187 with its operands exchanged
BufferEndSwapped(start_time, end_time, full) ==
  [buffer_start |-> IF RLt(start_time, DefaultBufferStart)
                    THEN start_time ELSE DefaultBufferStart,
   buffer_end |-> IF RLt(full, RAdd(end_time, DefaultBufferEnd))
                  THEN RSub(end_time, full) ELSE DefaultBufferEnd]

calculate_smart_buffer(start_time, end_time, full) ==
  [buffer_start |-> IF RLt(start_time, DefaultBufferStart)
                    THEN start_time ELSE DefaultBufferStart,
   buffer_end |-> IF RLt(full, RAdd(end_time, DefaultBufferEnd))
                  THEN RSub(full, end_time) ELSE DefaultBufferEnd]

(***************************************************************************)
(* combine_results                                                         *)
(***************************************************************************)
AgreementTolerance == Rat(5, 1)
AgreementBoost == Rat(11, 10)
Two == Rat(2, 1)

\* lines 209-210
StartDiff(dtw, stt) == RAbs(RSub(dtw.start, stt.startTime))
EndDiff(dtw, stt) == RAbs(RSub(dtw.end, stt.endTime))

\* line 212 with <= for <
AgreeInclusive(dtw, stt) ==
  /\ RLe(StartDiff(dtw, stt), AgreementTolerance)
  /\ RLe(EndDiff(dtw, stt), AgreementTolerance)

\* line 212: start_diff < 5 and end_diff < 5
Agree(dtw, stt) ==
  /\ RLt(StartDiff(dtw, stt), AgreementTolerance)
  /\ RLt(EndDiff(dtw, stt), AgreementTolerance)

\* line 216 without the boost
MeanConfidence(dtw, stt) ==
  RMin(One, RDiv(RAdd(dtw.confidence, stt.confidence), Two))

\* line 216 without min(1.0, ...)
UncappedConfidence(dtw, stt) ==
  RMul(RDiv(RAdd(dtw.confidence, stt.confidence), Two), AgreementBoost)

\* line 216
AgreedConfidence(dtw, stt) ==
  RMin(One, RMul(RDiv(RAdd(dtw.confidence, stt.confidence), Two), AgreementBoost))

\* lines 214-217
FuseAgreed(dtw, stt) ==
  [method |-> "hybrid_validated",
   crop_start |-> RDiv(RAdd(dtw.start, stt.startTime), Two),
   crop_end |-> RDiv(RAdd(dtw.end, stt.endTime), Two),
   confidence |-> AgreedConfidence(dtw, stt)]

\* line 229 lowering the confidence to the secondary's when that is lower
FuseDtwPreferredPenalised(dtw, stt) ==
  [method |-> "hybrid_dtw_preferred",
   crop_start |-> dtw.start,
   crop_end |-> dtw.end,
   confidence |-> RMin(dtw.confidence, stt.confidence)]

\* lines 226-229
FuseDtwPreferred(dtw, stt) ==
  [method |-> "hybrid_dtw_preferred",
   crop_start |-> dtw.start,
   crop_end |-> dtw.end,
   confidence |-> dtw.confidence]

\* lines 238-241 with the boost of line 216 applied
FuseDtwOnlyBoosted(dtw) ==
  [method |-> "dtw_only",
   crop_start |-> dtw.start,
   crop_end |-> dtw.end,
   confidence |-> RMin(One, RMul(dtw.confidence, AgreementBoost))]

\* lines 238-241
FuseDtwOnly(dtw) ==
  [method |-> "dtw_only",
   crop_start |-> dtw.start,
   crop_end |-> dtw.end,
   confidence |-> dtw.confidence]

\* line 249 reading startTime for endTime
FuseSttOnlyEndIsStart(stt) ==
  [method |-> "stt_only",
   crop_start |-> stt.startTime,
   crop_end |-> stt.startTime,
   confidence |-> stt.confidence]

\* lines 247-250
FuseSttOnly(stt) ==
  [method |-> "stt_only",
   crop_start |-> stt.startTime,
   crop_end |-> stt.endTime,
   confidence |-> stt.confidence]

\* the exception of line 256
BothFailed == [error |-> "Both DTW and STT matching failed"]

\* lines 254-256 returning an empty match where the code raises
FuseNeitherEmpty(dtw, stt) ==
  [method |-> "none", crop_start |-> Zero, crop_end |-> Zero, confidence |-> Zero]

\* lines 254-256
FuseNeither(dtw, stt) == BothFailed

\* lines 201-256: the branch taken; a dict is true unless it is None
Fuse(dtw, stt) ==
  IF dtw # None /\ stt # None THEN
    IF Agree(dtw, stt) THEN FuseAgreed(dtw, stt) ELSE FuseDtwPreferred(dtw, stt)
  ELSE IF dtw # None THEN FuseDtwOnly(dtw)
  ELSE IF stt # None THEN FuseSttOnly(stt)
  ELSE FuseNeither(dtw, stt)

\* lines 258-268: the buffers are added to what the branch chose
combine_results(dtw, stt, full) ==
  LET f == Fuse(dtw, stt)
  IN  IF f = BothFailed THEN BothFailed
      ELSE LET b == calculate_smart_buffer(f.crop_start, f.crop_end, full)
           IN  [method |-> f.method,
                crop_start |-> f.crop_start,
                crop_end |-> f.crop_end,
                buffer_start |-> b.buffer_start,
                buffer_end |-> b.buffer_end,
                confidence |-> f.confidence]

(***************************************************************************)
(* main, lines 344-366: the crop boundaries and the output record.         *)
(***************************************************************************)
\* line 345 without the buffer
ActualStartNoBuffer(c) == RMax(Zero, c.crop_start)

ActualStart(c) == RMax(Zero, RSub(c.crop_start, c.buffer_start))

\* line 346 without the buffer
ActualEndNoBuffer(c, full) == RMin(full, c.crop_end)

ActualEnd(c, full) == RMin(full, RAdd(c.crop_end, c.buffer_end))

\* line 364 echoing dtw_result for stt_result
OutputRecordEchoesDtwTwice(c, dtw, stt, full) ==
  [crop_start |-> ActualStart(c),
   crop_end |-> ActualEnd(c, full),
   crop_duration |-> RSub(ActualEnd(c, full), ActualStart(c)),
   match_start |-> c.crop_start,
   match_end |-> c.crop_end,
   buffer_start |-> c.buffer_start,
   buffer_end |-> c.buffer_end,
   confidence |-> c.confidence,
   method |-> c.method,
   methods |-> [dtw |-> dtw, stt |-> dtw]]

OutputRecord(c, dtw, stt, full) ==
  [crop_start |-> ActualStart(c),
   crop_end |-> ActualEnd(c, full),
   crop_duration |-> RSub(ActualEnd(c, full), ActualStart(c)),
   match_start |-> c.crop_start,
   match_end |-> c.crop_end,
   buffer_start |-> c.buffer_start,
   buffer_end |-> c.buffer_end,
   confidence |-> c.confidence,
   method |-> c.method,
   methods |-> [dtw |-> dtw, stt |-> stt]]

(***************************************************************************)
(* The inputs: what librosa and the transcript matcher hand to the code.   *)
(* Times are seconds on a one-second grid, costs are multiples of 5/2, and *)
(* the scenarios of the design document are added to the grid.             *)
(***************************************************************************)
MaxFull == 8      \* full_duration in 1..MaxFull
MaxStart == 6     \* start times in 0..MaxStart
MaxDur == 2       \* clip durations in 1..MaxDur
MaxCostK == 3     \* best_cost in {k * 5/2 : k in 0..MaxCostK}
MaxSttDur == 2    \* endTime - startTime in 0..MaxSttDur
SttConfSteps == 2 \* the matcher's confidence in {k / SttConfSteps}

ScenarioFull == Rat(60, 1)

FullDurations == {Rat(f, 1) : f \in 1..MaxFull} \cup {ScenarioFull}

\* A window is evaluated when full_frames >= int(clip_frames * 1.5) (line 68);
\* on durations: full >= 1.5 * clip_duration.
HasWindow(clip_duration, full) == RLe(RMul(Rat(3, 2), clip_duration), full)

\* <<start_time, clip_duration, best_cost>> of lines 64-87: with a window, a
\* frame of the track and a finite cost; without one, frame 0 and cost inf.
DtwFound(full) ==
  {<<Rat(s, 1), Rat(d, 1), Rat(5 * k, 2)>> :
     s \in 0..MaxStart, d \in 1..MaxDur, k \in 0..MaxCostK}
  \cup (IF full = ScenarioFull
        THEN {<<Rat(40, 1), Rat(10, 1), Rat(1, 2)>>, <<Rat(43, 1), Rat(10, 1), One>>}
        ELSE {})

DtwInputs(full) ==
  {t \in DtwFound(full) : RLt(t[1], full) /\ HasWindow(t[2], full)}
  \cup {<<Zero, Rat(d, 1), Inf>> : d \in {e \in 1..MaxDur : ~HasWindow(Rat(e, 1), full)}}

\* What match-audio-stt.mjs prints after "JSON OUTPUT:": a match estimate
\* (startTime <= endTime, confidence in [0, 1]) of a segment of the catalog.
SttEstimates ==
  {[startTime |-> Rat(s, 1), endTime |-> Rat(s + d, 1), confidence |-> Rat(k, SttConfSteps)] :
     s \in 0..MaxStart, d \in 0..MaxSttDur, k \in 0..SttConfSteps}
  \cup {[startTime |-> Rat(42, 1), endTime |-> Rat(51, 1), confidence |-> Rat(4, 5)],
        [startTime |-> Rat(60, 1), endTime |-> Rat(70, 1), confidence |-> Rat(7, 10)]}

\* run_stt_matching: every way it ends without a match returns None
SttFailures ==
  {"script_missing", "nonzero_exit", "no_marker", "bad_json", "timeout", "exception"}

\* lines 126-130 left out: the output is parsed whatever the exit code
SttIgnoresExitCode(how, estimate) ==
  IF how \in {"ok", "nonzero_exit"} THEN estimate ELSE None

run_stt_matching(how, estimate) == IF how = "ok" THEN estimate ELSE None

(***************************************************************************)
(* main                                                                    *)
(***************************************************************************)
\* the aligner's variables while main, or combine_results alone, is followed
AlignerIdle ==
  /\ features_clip = <<>>
  /\ features_full = <<>>
  /\ clip_samples = 0
  /\ i = 0
  /\ best = NoBest
  /\ positions = <<>>
  /\ pending = {}

\* no test suite is running
SuiteIdle == reported = None

\* main's variables while run_dtw_matching alone is followed
MainIdle ==
  /\ full_duration = Zero
  /\ stt_result = None
  /\ stt_how = "not_run"
  /\ combined = None
  /\ output = None
  /\ crop_file = None

Init ==
  /\ pc = "start"
  /\ full_duration \in FullDurations
  /\ dtw_result = None
  /\ stt_result = None
  /\ stt_how = "not_run"
  /\ combined = None
  /\ output = None
  /\ crop_file = None
  /\ AlignerIdle
  /\ SuiteIdle

\* line 338, run_dtw_matching returns
RunDtw ==
  /\ pc = "start"
  /\ \E t \in DtwInputs(full_duration) :
       dtw_result' = DtwResult(t[1], t[2], t[3])
  /\ pc' = "dtw_done"
  /\ UNCHANGED <<mvars, avars, svars>>

\* run_dtw_matching returning None on a failure, as run_stt_matching does
DtwFailsReturnsNone ==
  /\ pc = "start"
  /\ pc' = "dtw_done"
  /\ UNCHANGED <<dtw_result, mvars, avars, svars>>

\* the handler of lines 419-423 printing a record before it exits
DtwFailsWithRecord ==
  /\ pc = "start"
  /\ output' = [error |-> "aligner failed"]
  /\ pc' = "aborted"
  /\ UNCHANGED <<dtw_result, full_duration, stt_result, stt_how, combined,
                 crop_file, avars, svars>>

\* line 338, run_dtw_matching raises (the clip cannot be loaded): line 419
DtwFails ==
  /\ pc = "start"
  /\ pc' = "aborted"
  /\ UNCHANGED <<dtw_result, mvars, avars, svars>>

\* line 339, with a segments file
RunStt ==
  /\ pc = "dtw_done"
  /\ \E how \in SttFailures \cup {"ok"}, e \in SttEstimates :
       /\ stt_result' = run_stt_matching(how, e)
       /\ stt_how' = how
  /\ pc' = "stt_done"
  /\ UNCHANGED <<dtw_result, full_duration, combined, output, crop_file, avars, svars>>

\* line 339, without one (no third argument, or lines 317-320)
SkipStt ==
  /\ pc = "dtw_done"
  /\ stt_result' = None
  /\ stt_how' = "no_segments"
  /\ pc' = "stt_done"
  /\ UNCHANGED <<dtw_result, full_duration, combined, output, crop_file, avars, svars>>

\* line 342
Combine ==
  /\ pc = "stt_done"
  /\ combined' = combine_results(dtw_result, stt_result, full_duration)
  /\ pc' = IF combined' = BothFailed THEN "aborted" ELSE "combined"
  /\ UNCHANGED <<dtw_result, full_duration, stt_result, stt_how, output, crop_file, avars, svars>>

\* lines 344-417
Emit ==
  /\ pc = "combined"
  /\ output' = OutputRecord(combined, dtw_result, stt_result, full_duration)
  /\ crop_file' = output'
  /\ pc' = "emitted"
  /\ UNCHANGED <<dtw_result, full_duration, stt_result, stt_how, combined, avars, svars>>

Next == RunDtw \/ DtwFails \/ RunStt \/ SkipStt \/ Combine \/ Emit

Spec == Init /\ [][Next]_vars

\* main run without a segments file
PrimaryNext == RunDtw \/ DtwFails \/ SkipStt \/ Combine \/ Emit

PrimarySpec == Init /\ [][PrimaryNext]_vars

(***************************************************************************)
(* run-test-suite.py, run_test_case (src/audio-matching-test/scripts),     *)
(* invoked again and again on one test-case directory without a segments   *)
(* file: the matcher runs as a subprocess with the directory as its        *)
(* working directory, so crop_file is the directory's                      *)
(* crop_instructions.json and outlives the invocation.                     *)
(***************************************************************************)
PassConfidence == Rat(65, 100)

\* lines 77-94: result_data, without the metadata and the timestamp
ResultData(crop_data) ==
  [match |-> [start |-> crop_data.match_start,
              end |-> crop_data.match_end,
              confidence |-> crop_data.confidence,
              method |-> crop_data.method],
   crop |-> [start |-> crop_data.crop_start,
             end |-> crop_data.crop_end,
             duration |-> crop_data.crop_duration],
   status |-> IF RLt(PassConfidence, crop_data.confidence) THEN "pass" ELSE "review"]

\* lines 64-108 once the subprocess has exited: the exit code is not looked
\* at, the file is read if it exists
ReadCrop ==
  /\ pc \in {"emitted", "aborted"}
  /\ reported' = IF crop_file # None THEN ResultData(crop_file) ELSE None
  /\ pc' = "reported"
  /\ UNCHANGED <<dtw_result, mvars, avars>>

\* lines 110-112: the subprocess is killed after 120 s
TimeoutExpired ==
  /\ pc \in {"start", "dtw_done", "stt_done", "combined"}
  /\ reported' = None
  /\ pc' = "reported"
  /\ UNCHANGED <<dtw_result, mvars, avars>>

\* the suite is run again: a new subprocess in the same directory
RunAgain ==
  /\ pc = "reported"
  /\ pc' = "start"
  /\ dtw_result' = None
  /\ stt_result' = None
  /\ stt_how' = "not_run"
  /\ combined' = None
  /\ output' = None
  /\ reported' = None
  /\ UNCHANGED <<full_duration, crop_file, avars>>

SuiteNext == PrimaryNext \/ ReadCrop \/ TimeoutExpired \/ RunAgain

SuiteSpec == Init /\ [][SuiteNext]_vars

(***************************************************************************)
(* combine_results and the crop computation as functions of any pair of    *)
(* estimates, the absent primary included.                                 *)
(***************************************************************************)
FuseInit ==
  /\ pc = "stt_done"
  /\ full_duration \in FullDurations
  /\ dtw_result \in {DtwResult(t[1], t[2], t[3]) : t \in DtwInputs(full_duration)} \cup {None}
  /\ stt_result \in SttEstimates \cup {None}
  /\ stt_how = "not_run"
  /\ combined = None
  /\ output = None
  /\ crop_file = None
  /\ AlignerIdle
  /\ SuiteIdle

FuseNext == Combine \/ Emit

FuseSpec == FuseInit /\ [][FuseNext]_vars

(***************************************************************************)
(* run_dtw_matching on feature frames                                      *)
(***************************************************************************)
MaxClipFrames == 3   \* clip_frames in 1..MaxClipFrames
MaxFullFrames == 6   \* full_frames in 1..MaxFullFrames

FrameValues == {0, 1}

FrameSeqs(n) == UNION {[1..k -> FrameValues] : k \in 1..n}

\* the sample counts librosa turns into n frames: 1 + samples // hop_length = n
SampleCounts(n) == {(n - 1) * HopLength, n * HopLength - 1}

AlignInit ==
  /\ pc = "scan"
  /\ features_clip \in FrameSeqs(MaxClipFrames)
  /\ features_full \in FrameSeqs(MaxFullFrames)
  /\ clip_samples \in SampleCounts(Len(features_clip))
  /\ i = 0
  /\ best = NoBest
  /\ positions = <<>>
  /\ pending = {}
  /\ dtw_result = None
  /\ MainIdle
  /\ SuiteIdle

\* lines 68-76: one turn of the loop
ScanStep ==
  /\ pc = "scan"
  /\ InRange(features_clip, features_full, i)
  /\ best' = ScanUpdate(best, i, WindowCost(features_clip, features_full, i))
  /\ positions' = Append(positions, i)
  /\ i' = i + HopSize(Len(features_clip))
  /\ UNCHANGED <<pc, dtw_result, mvars, features_clip, features_full, clip_samples, pending,
                 svars>>

\* lines 78-99: the loop is over
ScanEnd ==
  /\ pc = "scan"
  /\ ~InRange(features_clip, features_full, i)
  /\ dtw_result' = AlignerResult(best, clip_samples)
  /\ pc' = "aligned"
  /\ UNCHANGED <<mvars, avars, svars>>

AlignNext == ScanStep \/ ScanEnd

AlignSpec == AlignInit /\ [][AlignNext]_vars

(***************************************************************************)
(* run_dtw_matching on longer, silent audio: the offsets the loop of line  *)
(* 68 visits when hop_size exceeds 1 (clip_frames >= 8).                   *)
(***************************************************************************)
MaxGridClip == 9    \* clip_frames in 1..MaxGridClip
MaxGridFull == 16   \* full_frames in 1..MaxGridFull

SilentSeqs(n) == {[j \in 1..k |-> 0] : k \in 1..n}

GridInit ==
  /\ pc = "scan"
  /\ features_clip \in SilentSeqs(MaxGridClip)
  /\ features_full \in SilentSeqs(MaxGridFull)
  /\ clip_samples = (Len(features_clip) - 1) * HopLength
  /\ i = 0
  /\ best = NoBest
  /\ positions = <<>>
  /\ pending = {}
  /\ dtw_result = None
  /\ MainIdle
  /\ SuiteIdle

GridSpec == GridInit /\ [][AlignNext]_vars

(***************************************************************************)
(* The scan of lines 68-76 with the windows evaluated by parallel workers: *)
(* results are reduced in the order the workers complete, a tie going to   *)
(* the smaller offset.                                                     *)
(***************************************************************************)
Offsets(clip, full) ==
  {o \in 0..Len(full) : o % HopSize(Len(clip)) = 0 /\ InRange(clip, full, o)}

ReduceByIndex(b, o, w) ==
  IF RLt(w.cost, b.cost) \/ (w.cost = b.cost /\ b.path # NoPath /\ o < b.position)
  THEN [cost |-> w.cost, position |-> o, path |-> w.wp]
  ELSE b

ParInit ==
  /\ pc = "reduce"
  /\ features_clip \in FrameSeqs(MaxClipFrames)
  /\ features_full \in FrameSeqs(MaxFullFrames)
  /\ clip_samples = (Len(features_clip) - 1) * HopLength
  /\ i = 0
  /\ best = NoBest
  /\ positions = <<>>
  /\ pending = Offsets(features_clip, features_full)
  /\ dtw_result = None
  /\ MainIdle
  /\ SuiteIdle

\* a worker completes the window at offset o (i: the offset completed last)
WorkerCompletes ==
  /\ pc = "reduce"
  /\ \E o \in pending :
       /\ best' = ReduceByIndex(best, o, WindowCost(features_clip, features_full, o))
       /\ pending' = pending \ {o}
       /\ i' = o
  /\ UNCHANGED <<pc, dtw_result, mvars, features_clip, features_full, clip_samples, positions,
                 svars>>

ParSpec == ParInit /\ [][WorkerCompletes]_vars

(***************************************************************************)
(* Properties                                                              *)
(***************************************************************************)
ValidRange(match_start, match_end, full) ==
  RLe(Zero, match_start) /\ RLt(match_start, match_end) /\ RLe(match_end, full)

InUnit(c) == RLe(Zero, c) /\ RLe(c, One)

Fused == combined # None /\ combined # BothFailed

BothPresent == dtw_result # None /\ stt_result # None

\* C1: every output record whose match range is valid (0 <= match_start <
\* match_end <= full_duration) has 0 <= crop_start < crop_end <= full_duration.
C1_BufferInvariant ==
  (output # None /\ ValidRange(output.match_start, output.match_end, full_duration))
    => /\ RLe(Zero, output.crop_start)
       /\ RLt(output.crop_start, output.crop_end)
       /\ RLe(output.crop_end, full_duration)

\* a valid range near both ends of the track: both buffers were shortened
C1_Witness ==
  /\ output # None
  /\ ValidRange(output.match_start, output.match_end, full_duration)
  /\ output.buffer_start = One
  /\ output.buffer_end = One
  /\ output.crop_start = Zero
  /\ output.crop_end = full_duration

\* C2: when both estimates are present and both deltas are below 5, the method
\* is hybrid_validated, start and end are the means of the two starts and ends
\* and the confidence is min(1, mean of the confidences * 1.1); primary
\* (40, 50, 0.9) and secondary (42, 51, 0.8) fuse to (41, 50.5, 0.935).
C2_FusionOnAgreement ==
  (Fused /\ BothPresent) =>
    /\ (/\ RLt(RAbs(RSub(dtw_result.start, stt_result.startTime)), Rat(5, 1))
        /\ RLt(RAbs(RSub(dtw_result.end, stt_result.endTime)), Rat(5, 1)))
       => /\ combined.method = "hybrid_validated"
          /\ RMul(Two, combined.crop_start) = RAdd(dtw_result.start, stt_result.startTime)
          /\ RMul(Two, combined.crop_end) = RAdd(dtw_result.end, stt_result.endTime)
          /\ LET boosted == RMul(RAdd(dtw_result.confidence, stt_result.confidence),
                                 Rat(11, 20))
             IN  combined.confidence = IF RLt(One, boosted) THEN One ELSE boosted
    /\ (/\ dtw_result.start = Rat(40, 1) /\ dtw_result.end = Rat(50, 1)
        /\ dtw_result.confidence = Rat(9, 10)
        /\ stt_result.startTime = Rat(42, 1) /\ stt_result.endTime = Rat(51, 1)
        /\ stt_result.confidence = Rat(4, 5))
       => /\ combined.method = "hybrid_validated"
          /\ combined.crop_start = Rat(41, 1)
          /\ combined.crop_end = Rat(101, 2)
          /\ combined.confidence = Rat(935, 1000)

\* the scenario has been fused
C2_Witness ==
  /\ Fused /\ BothPresent
  /\ dtw_result.start = Rat(40, 1) /\ stt_result.startTime = Rat(42, 1)
  /\ dtw_result.confidence = Rat(9, 10) /\ stt_result.confidence = Rat(4, 5)
  /\ combined.confidence = Rat(187, 200)

\* C3: when both estimates are present and a delta is not below 5 (a delta of
\* exactly 5 included), the method is hybrid_dtw_preferred and start, end and
\* confidence are the primary's.
C3_FusionOnDisagreement ==
  (/\ Fused /\ BothPresent
   /\ \/ RLe(Rat(5, 1), RAbs(RSub(dtw_result.start, stt_result.startTime)))
      \/ RLe(Rat(5, 1), RAbs(RSub(dtw_result.end, stt_result.endTime))))
    => /\ combined.method = "hybrid_dtw_preferred"
       /\ combined.crop_start = dtw_result.start
       /\ combined.crop_end = dtw_result.end
       /\ combined.confidence = dtw_result.confidence

\* a start delta of exactly 5 with an end delta below 5
C3_Witness ==
  /\ Fused /\ BothPresent
  /\ RAbs(RSub(dtw_result.start, stt_result.startTime)) = Rat(5, 1)
  /\ RLt(RAbs(RSub(dtw_result.end, stt_result.endTime)), Rat(5, 1))
  /\ combined.method = "hybrid_dtw_preferred"

\* C4: when the secondary estimate is unavailable and the primary is present,
\* the method is dtw_only and start, end and confidence are the primary's.
C4_PrimaryOnly ==
  (Fused /\ dtw_result # None /\ stt_result = None)
    => /\ combined.method = "dtw_only"
       /\ combined.crop_start = dtw_result.start
       /\ combined.crop_end = dtw_result.end
       /\ combined.confidence = dtw_result.confidence

\* a primary of confidence 1/2 fused alone and emitted
C4_Witness ==
  /\ output # None /\ stt_result = None
  /\ output.method = "dtw_only"
  /\ output.confidence = Rat(1, 2)

\* C5: an invalid match range (match_start >= match_end, a negative time, or
\* match_end > full_duration) never yields an output record.
C5_InvalidRangeRejected ==
  output # None => ValidRange(output.match_start, output.match_end, full_duration)

\* C6: the confidence of every estimate, of every fused match (agreement,
\* primary-preferred, primary-only, secondary-only) and of every output
\* record lies in [0, 1], and the aligner's is 1 - cost / 5 clamped to [0, 1]
\* (costs are not negative).
C6_ConfidenceRange ==
  /\ dtw_result # None =>
       /\ InUnit(dtw_result.confidence)
       /\ dtw_result.confidence =
            IF RLe(Rat(5, 1), dtw_result.dtw_cost) THEN Zero
            ELSE RSub(One, RDiv(dtw_result.dtw_cost, Rat(5, 1)))
  /\ stt_result # None => InUnit(stt_result.confidence)
  /\ Fused => InUnit(combined.confidence)
  /\ output # None => InUnit(output.confidence)

\* two estimates of confidence 1 agree: the boosted mean is capped at 1
C6_Witness ==
  /\ Fused /\ BothPresent
  /\ combined.method = "hybrid_validated"
  /\ dtw_result.confidence = One /\ stt_result.confidence = One
  /\ combined.confidence = One

\* C7: start <= end on the aligner's result and on the fused match of every
\* branch.
C7_StartBeforeEnd ==
  /\ dtw_result # None => RLe(dtw_result.start, dtw_result.end)
  /\ Fused => RLe(combined.crop_start, combined.crop_end)

\* an agreement mean of a primary starting after the secondary ends
C7_Witness ==
  /\ Fused /\ BothPresent
  /\ combined.method = "hybrid_validated"
  /\ RLt(stt_result.endTime, dtw_result.start)
  /\ RLt(combined.crop_start, combined.crop_end)

\* C8: the scan of lines 68-76 selects the offset of lowest normalized cost,
\* the smallest such offset on a tie, and a reduction of the windows in any
\* order of completion that breaks ties by offset ends with the same offset,
\* cost and path.
C8_BestOfReduction ==
  (pc = "reduce" /\ pending = {}) =>
    LET offsets == Offsets(features_clip, features_full)
        cost(o) == WindowCost(features_clip, features_full, o).cost
        seq == Scan(features_clip, features_full, 0, NoBest)
    IN  /\ offsets # {} =>
             /\ seq.position \in offsets
             /\ seq.cost = cost(seq.position)
             /\ \A o \in offsets : RLe(seq.cost, cost(o))
             /\ \A o \in offsets : cost(o) = seq.cost => seq.position <= o
        /\ best = seq

\* every window is reduced, and the winner of a tie completed last
C8_Witness ==
  /\ pc = "reduce" /\ pending = {}
  /\ best.path # NoPath
  /\ i = best.position
  /\ \E o \in Offsets(features_clip, features_full) :
       /\ o > i
       /\ WindowCost(features_clip, features_full, o).cost = best.cost

\* C9: when the full track has fewer frames than window_size, run_dtw_matching
\* returns no estimate.
C9_TrackTooShortFails ==
  (pc = "aligned" /\ Len(features_full) < WindowSize(Len(features_clip)))
    => dtw_result = None

\* C10: when neither estimate is available, combine_results raises and no
\* fused match and no output record exist.
C10_NeitherFails ==
  (pc # "stt_done" /\ dtw_result = None /\ stt_result = None)
    => pc = "aborted" /\ combined = BothFailed /\ output = None

\* combine_results was called with neither estimate
C10_Witness ==
  pc = "aborted" /\ dtw_result = None /\ stt_result = None /\ combined = BothFailed

\* C11: when the primary estimate is absent and the secondary is present, the
\* method is stt_only and start, end and confidence are the secondary's,
\* unchanged.
C11_SecondaryOnly ==
  (Fused /\ dtw_result = None /\ stt_result # None)
    => /\ combined.method = "stt_only"
       /\ combined.crop_start = stt_result.startTime
       /\ combined.crop_end = stt_result.endTime
       /\ combined.confidence = stt_result.confidence

\* the secondary estimate 42..51 of confidence 4/5 fused alone and emitted
C11_Witness ==
  /\ output # None /\ dtw_result = None /\ stt_result # None
  /\ output.method = "stt_only"
  /\ output.match_start = Rat(42, 1) /\ output.match_end = Rat(51, 1)
  /\ output.confidence = Rat(4, 5)

\* C12: whenever both estimates are present the fused match carries
\* disagreement_delta = max(|start difference|, |end difference|), and it
\* carries none when only one estimate is present.
C12_DisagreementDelta ==
  Fused =>
    IF BothPresent
    THEN /\ "disagreement_delta" \in DOMAIN combined
         /\ combined["disagreement_delta"]
              = RMax(StartDiff(dtw_result, stt_result), EndDiff(dtw_result, stt_result))
    ELSE "disagreement_delta" \notin DOMAIN combined

\* C13: however the transcript matching ends without an estimate (no segments
\* file, script missing, non-zero exit, no JSON marker, malformed JSON,
\* timeout, any other exception), run_stt_matching yields None, the run is
\* not aborted, and its output record has method dtw_only and the primary's
\* start, end and confidence.
C13_SecondaryAbsenceNotFatal ==
  (stt_how \in SttFailures \cup {"no_segments"})
    => /\ stt_result = None
       /\ pc # "aborted"
       /\ Fused => combined.method = "dtw_only"
       /\ output # None =>
            /\ output.method = "dtw_only"
            /\ output.match_start = dtw_result.start
            /\ output.match_end = dtw_result.end
            /\ output.confidence = dtw_result.confidence

\* the matcher timed out and the run emitted the primary's estimate 40..50
C13_Witness ==
  /\ stt_how = "timeout" /\ pc = "emitted"
  /\ output.method = "dtw_only"
  /\ output.match_start = Rat(40, 1) /\ output.match_end = Rat(50, 1)
  /\ output.confidence = Rat(9, 10)

\* C14: a run that ends in a fatal error has emitted no output record, neither
\* the printed JSON nor crop_instructions.json; a run is at a step of main,
\* or has emitted its record, or has aborted, and the last two exclude each
\* other.
C14_NoOutputOnFatalError ==
  /\ pc = "aborted" => output = None /\ crop_file = None
  /\ pc = "emitted" => output # None /\ crop_file = output
  /\ (output # None \/ crop_file # None) => pc = "emitted"
  /\ pc \in {"start", "dtw_done", "stt_done", "combined", "emitted", "aborted"}

\* the aligner failed and the run ended without a record
C14_Witness ==
  pc = "aborted" /\ dtw_result = None /\ output = None /\ crop_file = None

\* C15: a match that starts at 0 is cropped from 0; a match that ends inside
\* the track but closer to its end than the tail buffer is cropped to
\* full_duration exactly.
C15_BufferBoundary ==
  output # None =>
    /\ output.match_start = Zero => output.crop_start = Zero
    /\ (/\ RLe(output.match_end, full_duration)
        /\ RLt(full_duration, RAdd(output.match_end, DefaultBufferEnd)))
         => output.crop_end = full_duration

\* a match 0..2 in a track of 3 s: cropped 0..3
C15_Witness ==
  /\ output # None
  /\ output.match_start = Zero /\ output.crop_start = Zero
  /\ output.match_end = Rat(2, 1) /\ full_duration = Rat(3, 1)
  /\ output.crop_end = full_duration

\* the costs the confidence of the state's estimate is compared with
OtherCosts == {Rat(k, 2) : k \in 0..12} \cup {Inf}

\* C16: a lower cost never gives a lower confidence: for cost_a < cost_b the
\* confidence of cost_a is at least the confidence of cost_b.
C16_ConfidenceMonotone ==
  dtw_result # None =>
    \A c \in OtherCosts :
      /\ RLt(dtw_result.dtw_cost, c) => RLe(DtwConfidence(c), dtw_result.confidence)
      /\ RLt(c, dtw_result.dtw_cost) => RLe(dtw_result.confidence, DtwConfidence(c))

\* an estimate of cost 5/2 (confidence 1/2), strictly between cost 0
\* (confidence 1) and cost 5 (confidence 0)
C16_Witness ==
  /\ dtw_result # None
  /\ dtw_result.dtw_cost = Rat(5, 2) /\ dtw_result.confidence = Rat(1, 2)
  /\ DtwConfidence(Zero) = One /\ DtwConfidence(Rat(5, 1)) = Zero

\* C18: with only the primary estimate (start s, cost c, clip duration d) the
\* output record has confidence clamp(1 - c/5, 0, 1) and the estimate's start
\* and end s + d, and when s >= 2 and s + d + 2.5 <= full_duration it has
\* crop_start = s - 2 and crop_end = s + d + 2.5; for d = 10, s = 43, c = 1
\* in a track of 60 s: confidence 0.8, match_end 53, crop 41..55.5.
C18_EndToEndPrimaryOnly ==
  (output # None /\ stt_result = None) =>
    LET s == dtw_result.start
        e == dtw_result.end
        c == dtw_result.dtw_cost
        raw == RSub(One, RDiv(c, Rat(5, 1)))
    IN  /\ output.method = "dtw_only"
        /\ output.confidence
             = (IF RLt(raw, Zero) THEN Zero ELSE IF RLt(One, raw) THEN One ELSE raw)
        /\ output.match_start = s /\ output.match_end = e
        /\ (RLe(Rat(2, 1), s) /\ RLe(RAdd(e, Rat(5, 2)), full_duration))
             => /\ output.crop_start = RSub(s, Rat(2, 1))
                /\ output.crop_end = RAdd(e, Rat(5, 2))
        /\ (s = Rat(43, 1) /\ c = One /\ full_duration = Rat(60, 1))
             => /\ output.confidence = Rat(4, 5)
                /\ output.match_end = Rat(53, 1)
                /\ output.crop_start = Rat(41, 1)
                /\ output.crop_end = Rat(111, 2)

\* the run on the 60 s track where the aligner reports 43 s at cost 1
C18_Witness ==
  /\ output # None /\ stt_result = None
  /\ dtw_result.start = Rat(43, 1) /\ dtw_result.dtw_cost = One
  /\ full_duration = Rat(60, 1)
  /\ output.crop_start = Rat(41, 1) /\ output.crop_end = Rat(111, 2)

\* C19: the reported start frame is the winning window's offset plus the
\* column of the first point of its optimal path, the point aligned with clip
\* frame 0; the start time is that frame * hop_length / sample_rate and the
\* end time is the start time plus the clip's duration.
\* (librosa returns the path last point first, so its first point is the last
\* entry of best.path.)
C19_StartEndConversion ==
  (pc = "aligned" /\ best.path # NoPath) =>
    LET first == best.path[Len(best.path)]
        frame == best.position + first[2]
    IN  /\ first[1] = 0
        /\ dtw_result.start = Rat(frame * 512, 22050)
        /\ dtw_result.end = RAdd(dtw_result.start, Rat(clip_samples, 22050))

\* the width of the windows the scan evaluated, read off the winning path:
\* its last point (N - 1, M - 1) is the entry librosa returns first
EvaluatedWindowSize == best.path[1][2] + 1

\* C20 as amended: window_size is clip_len * 1.5 rounded down, so a window was
\* evaluated exactly when the track has at least that many frames.
C20_WindowSizeFloor ==
  LET n == Len(features_clip)
  IN  /\ best.path # NoPath =>
           /\ 2 * EvaluatedWindowSize <= 3 * n
           /\ 3 * n < 2 * EvaluatedWindowSize + 2
      /\ (pc = "aligned" /\ best.path = NoPath) => 2 * (Len(features_full) + 1) <= 3 * n

\* a clip of 3 frames was compared with a window of 4 frames
C20_Witness ==
  /\ pc = "aligned" /\ best.path # NoPath
  /\ Len(features_clip) = 3 /\ EvaluatedWindowSize = 4

\* C20: for every clip_len >= 1, window_size = ceil(clip_len * 1.5).
C20_WindowSizeCeiling ==
  LET n == Len(features_clip)
  IN  best.path # NoPath =>
        /\ 3 * n <= 2 * EvaluatedWindowSize
        /\ 2 * EvaluatedWindowSize < 3 * n + 2

\* C21: hop_size = max(1, clip_len // 4) is at least 1; the offsets evaluated
\* are exactly 0, hop_size, 2 * hop_size, ... up to and including the last one
\* that is <= full_len - window_size; every evaluated window lies inside the
\* track; and when full_len >= window_size the scan ends after
\* floor((full_len - window_size) / hop_size) + 1 evaluations.
C21_OffsetGrid ==
  LET n == Len(features_clip)
      full_len == Len(features_full)
      window_size == WindowSize(n)
      hop_size == IF n \div 4 >= 1 THEN n \div 4 ELSE 1
  IN  /\ hop_size >= 1
      /\ \A k \in 1..Len(positions) :
           /\ positions[k] = (k - 1) * hop_size
           /\ positions[k] + window_size <= full_len
      /\ pc = "scan" => i = Len(positions) * hop_size
      /\ pc = "aligned" =>
           /\ \A o \in 0..full_len :
                (o % hop_size = 0 /\ o <= full_len - window_size)
                  => \E k \in 1..Len(positions) : positions[k] = o
           /\ full_len >= window_size
                => Len(positions) = (full_len - window_size) \div hop_size + 1

\* a clip of 8 frames (hop_size 2, window_size 12) scanned over 16 frames:
\* offsets 0, 2, 4, the last one being full_len - window_size itself
C21_Witness ==
  /\ pc = "aligned"
  /\ Len(features_clip) = 8 /\ Len(features_full) = 16
  /\ positions = <<0, 2, 4>>

\* C25: when full_len >= window_size, every clip-length sub-range
\* [s, s + clip_len) of the track, 0 <= s <= full_len - clip_len, lies inside
\* at least one evaluated window [i, i + window_size), the sub-ranges ending
\* at the last frame included.
C25_SearchGridCoverage ==
  LET n == Len(features_clip)
      full_len == Len(features_full)
      window_size == WindowSize(n)
  IN  (pc = "aligned" /\ full_len >= window_size) =>
        \A s \in 0..(full_len - n) :
          \E k \in 1..Len(positions) :
            positions[k] <= s /\ s + n <= positions[k] + window_size

\* for every cell, row by row from cell k on, the total costs of all the paths
\* from (0, 0) to it whose steps raise the row, the column or both by one
\* (the test of the length always succeeds)
RECURSIVE PathSums(_, _, _, _)
PathSums(X, Y, k, acc) ==
  LET M == Len(Y)
      r == k \div M
      c == k % M
      d == Abs(X[r + 1] - Y[c + 1])
      from == {q \in {<<r - 1, c>>, <<r, c - 1>>, <<r - 1, c - 1>>} :
                q[1] >= 0 /\ q[2] >= 0}
      sums == IF k = 0 THEN {d}
              ELSE UNION {{d + v : v \in acc[q[1] * M + q[2] + 1]} : q \in from}
      next == Append(acc, sums)
  IN  IF k = Len(X) * M THEN acc
      ELSE IF Len(next) = k + 1 THEN PathSums(X, Y, k + 1, next)
      ELSE acc

\* the sum of the frame distances along a path
RECURSIVE PathCost(_, _, _)
PathCost(X, Y, path) ==
  IF path = <<>> THEN 0
  ELSE Abs(X[path[1][1] + 1] - Y[path[1][2] + 1]) + PathCost(X, Y, Tail(path))

\* the window the scan evaluated last
LastWindow ==
  SubSeq(features_full, positions[Len(positions)] + 1,
         positions[Len(positions)] + WindowSize(Len(features_clip)))

\* C22: for the window just evaluated, the accumulated cost matrix obeys
\* cost[r,c] = dist[r,c] + min(cost[r-1,c], cost[r,c-1], cost[r-1,c-1]); the
\* backtracked path runs from (0, 0) to (clip_len - 1, window_size - 1) in
\* steps that raise the row, the column or both by exactly one; its total
\* cost is the least over all such paths; and the normalized cost is that
\* total divided by the number of points of the path.
C22_PerWindowDtw ==
  positions # <<>> =>
    LET X == features_clip
        Y == LastWindow
        N == Len(X)
        M == Len(Y)
        a == Dtw(X, Y)
        cost(r, c) == a.D[r * M + c + 1]
        dist(r, c) == Abs(X[r + 1] - Y[c + 1])
        before(r, c) == {q \in {<<r - 1, c>>, <<r, c - 1>>, <<r - 1, c - 1>>} :
                          q[1] >= 0 /\ q[2] >= 0}
        wp == a.wp
        L == Len(wp)
        w == WindowCost(X, features_full, positions[Len(positions)])
    IN  /\ Len(a.D) = N * M
        /\ cost(0, 0) = dist(0, 0)
        /\ \A r \in 0..(N - 1), c \in 0..(M - 1) :
             before(r, c) # {} =>
               /\ \E q \in before(r, c) : cost(r, c) = dist(r, c) + cost(q[1], q[2])
               /\ \A q \in before(r, c) : cost(r, c) <= dist(r, c) + cost(q[1], q[2])
        /\ wp[L] = <<0, 0>> /\ wp[1] = <<N - 1, M - 1>>
        /\ \A k \in 1..(L - 1) :
             <<wp[k][1] - wp[k + 1][1], wp[k][2] - wp[k + 1][2]>>
               \in {<<1, 0>>, <<0, 1>>, <<1, 1>>}
        /\ PathCost(X, Y, wp) = cost(N - 1, M - 1)
        /\ \A v \in PathSums(X, Y, 0, <<>>)[N * M] : cost(N - 1, M - 1) <= v
        /\ w.cost = Rat(cost(N - 1, M - 1), L)
        /\ best.position = positions[Len(positions)]
             => best.cost = w.cost /\ best.path = wp

\* a clip 0,1,0 against the window 1,1,0,1: the cheapest path costs 2 and has
\* 4 points, so the normalized cost is 1/2
C22_Witness ==
  /\ positions # <<>>
  /\ features_clip = <<0, 1, 0>> /\ LastWindow = <<1, 1, 0, 1>>
  /\ best.position = positions[Len(positions)]
  /\ best.cost = Rat(1, 2) /\ Len(best.path) = 4

\* C24: run_test_case reports a result only from a crop_instructions.json
\* the matcher of the same invocation wrote; when that matcher fails and
\* writes no file, a file left by an earlier run is not reported.
C24_NoStaleResult ==
  (pc = "reported" /\ reported # None)
    => /\ output # None
       /\ crop_file = output
       /\ reported = ResultData(output)

\* C23: once produced, the primary and the secondary estimate are never
\* changed (combine_results and calculate_smart_buffer leave them as they
\* are), and the record emitted echoes them as methods.dtw and methods.stt,
\* null standing for a signal that gave nothing.
C23_NoMutation ==
  [][/\ dtw_result # None => dtw_result' = dtw_result
     /\ pc \in {"stt_done", "combined"} => stt_result' = stt_result
     /\ pc' = "emitted" =>
          /\ output'.methods.dtw = dtw_result
          /\ output'.methods.stt = stt_result
          /\ stt_how # "ok" => output'.methods.stt = None
          /\ crop_file' = output']_vars

\* both estimates fused to their mean 41..50.5 and echoed as they were
C23_Witness ==
  /\ pc = "emitted" /\ BothPresent
  /\ output.method = "hybrid_validated"
  /\ output.match_start = Rat(41, 1)
  /\ output.methods.dtw = dtw_result /\ output.methods.dtw.start = Rat(40, 1)
  /\ output.methods.stt = stt_result /\ output.methods.stt.startTime = Rat(42, 1)

\* C26: in main the primary estimate is present whenever combine_results is
\* called (an aligner failure aborts the run first), so the method is only
\* ever dtw_only, hybrid_validated or hybrid_dtw_preferred; the stt_only
\* branch and the exception for two missing estimates are never reached.
C26_PrimaryAlwaysPresent ==
  /\ pc \in {"stt_done", "combined", "emitted"} => dtw_result # None
  /\ combined # BothFailed
  /\ Fused => combined.method \in {"dtw_only", "hybrid_validated", "hybrid_dtw_preferred"}
  /\ output # None => output.method \in {"dtw_only", "hybrid_validated", "hybrid_dtw_preferred"}
  /\ pc = "aborted" => dtw_result = None /\ combined = None

\* combine_results was called with the primary alone, after the secondary
\* had failed
C26_Witness ==
  /\ pc = "combined" /\ dtw_result # None /\ stt_result = None
  /\ stt_how = "nonzero_exit"
  /\ combined.method = "dtw_only"

\* C27: for every fused match the buffers returned by calculate_smart_buffer
\* satisfy 0 <= buffer_start <= 2.0 and 0 <= buffer_end <= 2.5.
C27_BuffersInRange ==
  Fused =>
    /\ RLe(Zero, combined.buffer_start) /\ RLe(combined.buffer_start, Rat(2, 1))
    /\ RLe(Zero, combined.buffer_end) /\ RLe(combined.buffer_end, Rat(5, 2))

\* some delta is at least 5.0
Disagree(dtw, stt) ==
  \/ RLe(Rat(5, 1), RAbs(RSub(dtw.start, stt.startTime)))
  \/ RLe(Rat(5, 1), RAbs(RSub(dtw.end, stt.endTime)))

\* C28: for a fixed primary estimate and full_duration, any two secondary
\* estimates that both disagree with the primary give the same method,
\* match_start, match_end, buffers, confidence and crop boundaries: the fused
\* match of the run is the one any other disagreeing secondary gives, its
\* buffers and the crop boundaries are functions of it and of full_duration,
\* and the secondary appears in the echoed sub-result only.
C28_NonInterference ==
  (Fused /\ BothPresent /\ Disagree(dtw_result, stt_result)) =>
    /\ pc = "combined" =>
         \A other \in SttEstimates :
           Disagree(dtw_result, other) =>
             combine_results(dtw_result, other, full_duration) = combined
    /\ output # None =>
         /\ output.method = combined.method
         /\ output.match_start = combined.crop_start
         /\ output.match_end = combined.crop_end
         /\ output.confidence = combined.confidence
         /\ output.buffer_start = combined.buffer_start
         /\ output.buffer_end = combined.buffer_end
         /\ output.crop_start = RMax(Zero, RSub(combined.crop_start, combined.buffer_start))
         /\ output.crop_end
              = RMin(full_duration, RAdd(combined.crop_end, combined.buffer_end))
         /\ output.crop_duration = RSub(output.crop_end, output.crop_start)
         /\ output.methods.stt = stt_result

\* a run whose secondary disagrees, another disagreeing secondary of another
\* confidence exists, and the record was emitted
C28_Witness ==
  /\ output # None /\ BothPresent /\ Disagree(dtw_result, stt_result)
  /\ output.method = "hybrid_dtw_preferred"
  /\ \E other \in SttEstimates :
       /\ Disagree(dtw_result, other)
       /\ other.startTime # stt_result.startTime
       /\ RLt(other.confidence, stt_result.confidence)
       /\ RLt(other.confidence, dtw_result.confidence)

\* C29: whenever a window was evaluated, the reported start frame f satisfies
\* winning_offset <= f and f + clip_len <= full_len, so that 0 <= start_time
\* and the estimate ends inside the track.
C29_EstimateInsideTrack ==
  (pc = "aligned" /\ best.path # NoPath) =>
    LET f == ActualStartFrame(best)
    IN  /\ best.position <= f
        /\ f + Len(features_clip) <= Len(features_full)
        /\ dtw_result.start = FramesToTime(f)
        /\ RLe(Zero, dtw_result.start)

\* C30: for every valid match range the clamped crop of the code equals the
\* unclamped crop of the design (lead 2.0, or match_start when that is less;
\* tail 2.5, or full_duration - match_end when match_end + 2.5 exceeds
\* full_duration), and crop_duration = (match_end - match_start) +
\* buffer_start + buffer_end.
C30_BufferRefinement ==
  (output # None /\ ValidRange(output.match_start, output.match_end, full_duration)) =>
    LET lead == IF RLt(output.match_start, Rat(2, 1)) THEN output.match_start ELSE Rat(2, 1)
        tail == IF RLt(full_duration, RAdd(output.match_end, Rat(5, 2)))
                THEN RSub(full_duration, output.match_end) ELSE Rat(5, 2)
    IN  /\ output.buffer_start = lead /\ output.buffer_end = tail
        /\ output.crop_start = RSub(output.match_start, lead)
        /\ output.crop_end = RAdd(output.match_end, tail)
        /\ output.crop_duration
             = RAdd(RSub(output.match_end, output.match_start),
                    RAdd(output.buffer_start, output.buffer_end))

\* a match 1..3 in a track of 4 s: both buffers shortened, crop 0..4
C30_Witness ==
  /\ output # None
  /\ output.match_start = One /\ output.match_end = Rat(3, 1)
  /\ full_duration = Rat(4, 1)
  /\ output.buffer_start = One /\ output.buffer_end = One
  /\ output.crop_start = Zero /\ output.crop_end = Rat(4, 1)
  /\ output.crop_duration = Rat(4, 1)

====
